---- MODULE Spec2Model ----
(***************************************************************************)
(* Client-side cluster observer and request router of the Raft dashboard:  *)
(* the Leader Tracker and redirect-aware task API (lib/api.ts), the        *)
(* reactive store (stores/raftStore), the status aggregator                *)
(* (hooks/useRaftStatus), the task handlers (components/TaskManager), the  *)
(* push channel (hooks/useWebSocket) and the replication view              *)
(* (components/LeaderTimeline).                                            *)
(***************************************************************************)
EXTENDS Integers, Sequences, FiniteSets, TLC

VARIABLES
    currentLeaderNode,  \* api.ts: let currentLeaderNode
    baseURL,            \* api.ts: api.defaults.baseURL
    nodes,              \* store: Map<number, NodeStatus>
    leaderId,           \* store: number | null
    currentTerm,        \* store: number
    events,             \* store: RaftEvent[]
    tasks,              \* store: Task[]
    call,               \* the taskApi mutation in progress and its outcome
    cycles,             \* running fetchAllNodeStatuses invocations, oldest first
    silent,             \* nodes that currently leave status requests unanswered
    evFetches,          \* fetchEvents requests in flight (target node ids)
    pushed,             \* push events received since the history was last replaced
    fetched,            \* length of the list the history was last replaced with
    applied,            \* updateNodeStatus calls so far, counted up to LastNode + 1
    missed,             \* per node: refresh cycles started since it fell silent (up to 2)
    observed,           \* the run of identical statuses last applied (up to MaxRepeats)
    mounted,            \* useWebSocket: the effect is active
    chan,               \* per slot: a WebSocket and the reconnect timer its onclose set
    wsRef,              \* useWebSocket: wsRef.current (slot, 0 for null)
    reconnectTimeoutRef,\* useWebSocket: reconnectTimeoutRef.current (slot, 0 for null)
    wsConnected,        \* store: boolean
    sends,              \* sendMessage calls so far and how many went onto the wire
    reconnects,         \* connect() calls made by reconnect timers since the effect ran
    nodeLogs,           \* LogReplication: Map<number, NodeLog[]>
    prevRef,            \* node whose log was the reference before the last setNodeLogs
    logFailed,          \* nodes whose log request failed in the last fetchAllLogs
    ticking,            \* useRaftStatus: the interval timers of its effects are set
    refresh,            \* TaskManager: a create and a getAll in flight, with the server's tasks
    wiped               \* events pushed into the history that the last setEvents discarded

vars == <<currentLeaderNode, baseURL, nodes, leaderId, currentTerm, events,
          tasks, call, cycles, silent, evFetches, pushed, fetched, applied, missed,
          observed, mounted, chan, wsRef, reconnectTimeoutRef, wsConnected, sends,
          reconnects,
          nodeLogs, prevRef, logFailed, ticking, refresh, wiped>>

trackerVars == <<currentLeaderNode, baseURL>>
viewVars    == <<nodes, leaderId, currentTerm, applied>>
socketVars  == <<mounted, chan, wsRef, reconnectTimeoutRef, wsConnected, sends,
                 reconnects>>
replVars    == <<nodeLogs, prevRef, logFailed>>

-----------------------------------------------------------------------------
(* Bounds of the model *)

MaxNodeId   == 4    \* node ids a response may name: 1..3 registered, above that unknown
MaxTerm     == 2    \* terms a node reports: 0..MaxTerm
MaxCycles   == 2    \* status refresh cycles that may be running at once
MaxTaskId   == 1    \* task ids the server hands out: 1..MaxTaskId
MaxTasks    == 1    \* length of the task cache
MaxAppends  == 150  \* push events between two replacements of the history
MaxInflight == 1    \* events fetches in flight at once
MaxRepeats  == 2    \* identical statuses in a row that are told apart
MaxChannels == 2    \* WebSockets and reconnect timers alive at once
MaxSends    == 2    \* sendMessage calls
MaxReconnects == 2  \* reconnects that are counted
MaxLogLen   == 5    \* entries of a node's log
MaxServerTasks == 3 \* tasks the cluster may come to hold during a task refresh

(* Program constants *)

NoLeader    == 0    \* leaderId: null (also an absent leader_id in a body)
LastNode    == 3    \* for (let nodeId = 1; nodeId <= 3; nodeId++)
HistoryKeep == 99   \* state.events.slice(-99)
ReconnectDelay == 2000  \* window.setTimeout(..., 2000)
ShownRows   == 10   \* leaderLogs.slice(-10)

NODE_URLS == (1 :> "http://localhost:8001") @@
             (2 :> "http://localhost:8002") @@
             (3 :> "http://localhost:8003")

Nodes   == DOMAIN NODE_URLS
NodeIds == 1..MaxNodeId
Terms   == 0..MaxTerm

-----------------------------------------------------------------------------
(* Leader Tracker: lib/api.ts *)

\* faulty variant: the base address is never moved off node 1
BaseUrlForAlwaysFirst(nodeId) == NODE_URLS[1]

\* NODE_URLS[nodeId] || NODE_URLS[1]
BaseUrlFor(nodeId) ==
    IF nodeId \in DOMAIN NODE_URLS THEN NODE_URLS[nodeId] ELSE NODE_URLS[1]

getLeaderNode == currentLeaderNode

setLeaderNode(nodeId) ==
    /\ currentLeaderNode' = nodeId
    /\ baseURL' = BaseUrlFor(nodeId)

-----------------------------------------------------------------------------
(* NodeStatus values *)

\* a status as a node reports it (poll answer or push frame)
Reported(n, role, t) ==
    [node_id |-> n, state |-> role, term |-> t,
     voted_for |-> IF role = "leader" THEN n ELSE NoLeader,
     log_length |-> t + 1, commit_index |-> t, last_heartbeat |-> 1,
     is_leader |-> (role = "leader"),
     leader_id |-> IF role = "leader" THEN n ELSE NoLeader]

Statuses(n) == {Reported(n, role, t) : role \in {"leader", "follower"}, t \in Terms}

\* faulty variant: a failed poll counts as a new term
StoppedStatusNextTerm(nodeId) ==
    [node_id |-> nodeId, state |-> "stopped", term |-> currentTerm + 1,
     voted_for |-> NoLeader, log_length |-> 0, commit_index |-> 0, last_heartbeat |-> 0,
     is_leader |-> FALSE, leader_id |-> NoLeader]

\* the status fetchAllNodeStatuses writes in its catch branch
StoppedStatus(nodeId) ==
    [node_id |-> nodeId, state |-> "stopped", term |-> 0, voted_for |-> NoLeader,
     log_length |-> 0, commit_index |-> 0, last_heartbeat |-> 0,
     is_leader |-> FALSE, leader_id |-> NoLeader]

-----------------------------------------------------------------------------
(* Store: updateNodeStatus *)

\* faulty variant: the terms of the statuses add up
MathMaxAdds(a, b) == a + b

\* faulty variant: the term of the latest status replaces currentTerm
MathMaxTakesNew(a, b) == b

\* faulty variant: Math.min
MathMin(a, b) == IF a <= b THEN a ELSE b

\* Math.max(state.currentTerm, status.term)
MathMax(a, b) == IF a >= b THEN a ELSE b

\* faulty variant: the entry of a node that has stopped is dropped
MapSetDropsStopped(m, k, v) ==
    IF v.state = "stopped" THEN [x \in (DOMAIN m) \ {k} |-> m[x]]
    ELSE [x \in (DOMAIN m) \cup {k} |-> IF x = k THEN v ELSE m[x]]

\* newNodes.set(nodeId, status)
MapSet(m, k, v) == [x \in (DOMAIN m) \cup {k} |-> IF x = k THEN v ELSE m[x]]

\* faulty variant: a known leader is kept until it is unset
NextLeaderIdKeepsKnown(nodeId, status) ==
    IF status.is_leader /\ leaderId = NoLeader THEN nodeId ELSE leaderId

\* faulty variant: a status of the leader without is_leader clears leaderId
NextLeaderIdForgetsLeader(nodeId, status) ==
    IF status.is_leader THEN nodeId
    ELSE IF nodeId = leaderId THEN NoLeader ELSE leaderId

NextLeaderId(nodeId, status) ==
    IF status.is_leader THEN nodeId ELSE leaderId

updateNodeStatus(nodeId, status) ==
    /\ nodes' = MapSet(nodes, nodeId, status)
    /\ IF status.is_leader /\ nodeId # leaderId
         THEN setLeaderNode(nodeId)
         ELSE UNCHANGED trackerVars
    /\ leaderId' = NextLeaderId(nodeId, status)
    /\ currentTerm' = MathMax(currentTerm, status.term)
    /\ applied' = IF applied <= LastNode THEN applied + 1 ELSE applied

-----------------------------------------------------------------------------
(* Store: task cache *)

TaskIds == 1..MaxTaskId

ServerTask(id, st) == [id |-> id, status |-> st]

RECURSIVE SelectTasks(_, _)
\* state.tasks.filter((t) => t.id !== taskId)
SelectTasks(ts, taskId) ==
    IF ts = <<>> THEN <<>>
    ELSE IF Head(ts).id # taskId
           THEN <<Head(ts)>> \o SelectTasks(Tail(ts), taskId)
           ELSE SelectTasks(Tail(ts), taskId)

\* set({ tasks })
setTasks(ts, newTasks) == newTasks
addTask(ts, task)    == Append(ts, task)
updateTask(ts, task) == [i \in DOMAIN ts |-> IF ts[i].id = task.id THEN task ELSE ts[i]]
removeTask(ts, taskId) == SelectTasks(ts, taskId)

CachedIds == {tasks[i].id : i \in DOMAIN tasks}

-----------------------------------------------------------------------------
(* Redirect-aware task API (lib/api.ts) with its callers (TaskManager) *)

Ops == {"create", "update", "delete"}

\* an answer to a task request: status 0 stands for "no response" (network error)
Answer(st, lid, task) == [status |-> st, leader_id |-> lid, data |-> task]
NoTask == ServerTask(0, "none")

OkAnswers(op, id) ==
    IF op = "create" THEN {Answer(200, NoLeader, ServerTask(i, "pending")) : i \in TaskIds}
    ELSE IF op = "update" THEN {Answer(200, NoLeader, ServerTask(id, "completed"))}
    ELSE {Answer(200, NoLeader, NoTask)}

RedirectAnswers == {Answer(307, l, NoTask) : l \in {NoLeader} \cup NodeIds}
\* a 5xx body may name a leader as well; it is no redirect
FailureAnswers  == {Answer(st, NoLeader, NoTask) : st \in {0, 400, 500}}
                       \cup {Answer(500, 1, NoTask)}
Answers(op, id) == OkAnswers(op, id) \cup RedirectAnswers \cup FailureAnswers

IdleCall == [pc |-> "idle", op |-> "none", id |-> 0, sent |-> <<>>,
             got |-> <<>>, result |-> "none", thrown |-> <<>>]

\* faulty variant: any failure whose body names a leader counts as a redirect
IsRedirectAnyFailure(r) == r.status # 200 /\ r.leader_id # NoLeader

\* faulty variant: the "if (leaderId)" test is missing
IsRedirectWithoutLeader(r) == r.status = 307

\* axios.isAxiosError(error) && error.response?.status === 307, then if (leaderId)
IsRedirect(r) == r.status = 307 /\ r.leader_id # NoLeader

\* the caller's continuation after "await taskApi.<op>(...)" returned
\* (handleSubmit lines 41-47, handleDelete line 71, handleStatusChange line 80)
CacheAfter(op, id, data) ==
    IF op = "create" THEN addTask(tasks, data)
    ELSE IF op = "update" THEN updateTask(tasks, data)
    ELSE removeTask(tasks, id)

\* the call returns to its caller: the handler's try block goes on
Returns(r) ==
    /\ call' = [call EXCEPT !.pc = "done", !.got = Append(@, r), !.result = "ok"]
    /\ tasks' = CacheAfter(call.op, call.id, r.data)

\* faulty variant: the handler updates the cache whether the call threw or not
ThrowsCacheUpdated(r, err) ==
    /\ call' = [call EXCEPT !.pc = "done", !.got = Append(@, r),
                            !.result = "error", !.thrown = <<err>>]
    /\ tasks' = CacheAfter(call.op, call.id, r.data)

\* the call throws err: the handler's catch block only logs
Throws(r, err) ==
    /\ call' = [call EXCEPT !.pc = "done", !.got = Append(@, r),
                            !.result = "error", !.thrown = <<err>>]
    /\ UNCHANGED tasks

\* faulty variant: the redirect is written into the store's leaderId as well
FollowRedirectSetsStoreLeader(nodeId) ==
    /\ setLeaderNode(nodeId)
    /\ leaderId' = nodeId
    /\ UNCHANGED <<nodes, currentTerm, applied>>

\* the redirect branch of the catch block: setLeaderNode(leaderId), nothing else
FollowRedirect(nodeId) == setLeaderNode(nodeId) /\ UNCHANGED viewVars

\* handleSubmit / handleDelete / handleStatusChange call taskApi.<op>: first request
taskApiCall(op, id) ==
    /\ call.pc \in {"idle", "done"}
    /\ IF op = "create" THEN id = 0 /\ Len(tasks) < MaxTasks ELSE id \in CachedIds
    /\ call' = [IdleCall EXCEPT !.pc = "first", !.op = op, !.id = id,
                                !.sent = <<baseURL>>]
    /\ UNCHANGED <<trackerVars, viewVars, events, tasks, cycles, silent,
                   evFetches, pushed, fetched, missed, observed, socketVars, replVars,
                   ticking, refresh, wiped>>

\* the first request is answered with r: the try block or the catch block
taskApiFirstAnswer(r) ==
    /\ call.pc = "first"
    /\ r \in Answers(call.op, call.id)
    /\ IF r.status = 200
         THEN Returns(r) /\ UNCHANGED <<trackerVars, viewVars>>
         ELSE IF IsRedirect(r)
           THEN /\ FollowRedirect(r.leader_id)
                /\ call' = [call EXCEPT !.pc = "retry", !.got = Append(@, r),
                                        !.sent = Append(@, baseURL')]
                /\ UNCHANGED tasks
           ELSE Throws(r, r) /\ UNCHANGED <<trackerVars, viewVars>>
    /\ UNCHANGED <<events, cycles, silent, evFetches, pushed, fetched, missed,
                   observed, socketVars, replVars, ticking, refresh, wiped>>

\* what the catch block does once the retry has been answered with 2xx:
\* create and update return response.data; delete falls through to "throw error"
RetrySucceeded(op, first, r) ==
    IF op = "delete" THEN Throws(r, first) ELSE Returns(r)

\* faulty variant: a redirected retry is followed again
RetryFailedFollowsRedirect(r) ==
    IF IsRedirect(r)
      THEN /\ setLeaderNode(r.leader_id)
           /\ call' = [call EXCEPT !.got = Append(@, r), !.sent = Append(@, baseURL')]
           /\ UNCHANGED tasks
      ELSE Throws(r, r) /\ UNCHANGED trackerVars

\* the retry failed: its error leaves the catch block, whatever it is
RetryFailed(r) == Throws(r, r) /\ UNCHANGED trackerVars

\* the retry is answered with r
taskApiRetryAnswer(r) ==
    /\ call.pc = "retry"
    /\ r \in Answers(call.op, call.id)
    /\ IF r.status = 200
         THEN RetrySucceeded(call.op, call.got[1], r) /\ UNCHANGED trackerVars
         ELSE RetryFailed(r)
    /\ UNCHANGED <<viewVars, events, cycles, silent, evFetches, pushed, fetched, missed,
                   observed, socketVars, replVars, ticking, refresh, wiped>>

-----------------------------------------------------------------------------
(* Event Stream Subscriber: ws.onmessage with a status frame *)

wsStatusMessage(status) ==
    /\ updateNodeStatus(status.node_id, status)
    /\ UNCHANGED <<events, tasks, call, cycles, silent, evFetches, pushed, fetched, missed,
                   observed, socketVars, replVars, ticking, refresh, wiped>>

-----------------------------------------------------------------------------
(* The task executor next to the leader observations of the push channel *)

\* the frames that move the Leader Tracker while tasks are being written:
\* node n reports itself as leader
LeaderClaims(n) == {Reported(n, "leader", 1)}

\* slots for the WebSockets of the subscriber; a slot holds a socket and, once
\* the socket has closed, the reconnect timer its onclose handler has set
Slots == 1..MaxChannels
Free  == [state |-> "none", delay |-> 0]

\* no create and no getAll in flight, no task on the server
NoRefresh == [create |-> "idle", created |-> NoTask, getAll |-> "idle", list |-> <<>>,
              server |-> <<>>]

Init ==
    /\ currentLeaderNode = 1
    /\ baseURL = NODE_URLS[1]
    /\ nodes = <<>>
    /\ leaderId = NoLeader
    /\ currentTerm = 0
    /\ events = <<>>
    /\ tasks = <<>>
    /\ call = IdleCall
    /\ cycles = <<>>
    /\ silent = {}
    /\ evFetches = <<>>
    /\ pushed = 0
    /\ fetched = 0
    /\ applied = 0
    /\ missed = [n \in Nodes |-> 0]
    /\ observed = <<>>
    /\ mounted = FALSE
    /\ chan = [c \in Slots |-> Free]
    /\ wsRef = 0
    /\ reconnectTimeoutRef = 0
    /\ wsConnected = FALSE
    /\ sends = [calls |-> 0, wire |-> 0]
    /\ reconnects = 0
    /\ nodeLogs = <<>>
    /\ prevRef = 0
    /\ logFailed = {}
    /\ ticking = TRUE
    /\ refresh = NoRefresh
    /\ wiped = 0

Next ==
    \/ \E op \in Ops, id \in {0} \cup TaskIds : taskApiCall(op, id)
    \/ \E r \in Answers(call.op, call.id) : taskApiFirstAnswer(r)
    \/ \E r \in Answers(call.op, call.id) : taskApiRetryAnswer(r)
    \/ \E n \in Nodes : \E s \in LeaderClaims(n) : wsStatusMessage(s)

Spec == Init /\ [][Next]_vars

-----------------------------------------------------------------------------
(* Properties of the task executor *)

Last(seq) == seq[Len(seq)]

\* this step handles the answer to the first request of the call
FirstAnswered == call.pc = "first" /\ call' # call
\* this step handles the answer to the retry
RetryAnswered == call.pc = "retry" /\ call' # call
\* this step is an updateNodeStatus with is_leader = true for another node than leaderId
LeaderObserved ==
    /\ call' = call
    /\ leaderId' # leaderId
    /\ leaderId' \in DOMAIN nodes' /\ nodes'[leaderId'].is_leader
    /\ currentLeaderNode' = leaderId'

\* C1: a first attempt answered 307 with leader_id = B sets the Leader Tracker to
\* B and issues exactly one retry of the same operation, addressed to node B's
\* registered address; the tracker then changes only by another redirect or by
\* a leader observation.
C1_RedirectRetriesOnceAtNewLeader ==
    [][ /\ (FirstAnswered /\ Last(call'.got).status = 307
                          /\ Last(call'.got).leader_id # NoLeader)
           => LET B == Last(call'.got).leader_id IN
              /\ currentLeaderNode' = B
              /\ call'.pc = "retry"
              /\ call'.op = call.op /\ call'.id = call.id
              /\ Len(call'.sent) = Len(call.sent) + 1
              /\ (B \in DOMAIN NODE_URLS => Last(call'.sent) = NODE_URLS[B]
                                            /\ baseURL' = NODE_URLS[B])
        /\ RetryAnswered => call'.pc = "done" /\ call'.sent = call.sent
        /\ (trackerVars' # trackerVars)
           => \/ FirstAnswered /\ call'.pc = "retry"
              \/ LeaderObserved
      ]_vars

C1_Witness ==
    /\ call.pc = "done" /\ call.op = "update"
    /\ call.got[1] = Answer(307, 2, NoTask)
    /\ call.sent = <<NODE_URLS[1], NODE_URLS[2]>>
    /\ currentLeaderNode = 2 /\ baseURL = NODE_URLS[2]

\* C2: one mutation call never sends more than two requests; a retry that is
\* answered with a redirect again is not followed: no third request, the Leader
\* Tracker stays as it is, and the caller gets an error.
C2_SecondRedirectNotFollowed ==
    [][ /\ Len(call'.sent) <= 2
        /\ (RetryAnswered /\ Last(call'.got).status = 307)
           => /\ call'.pc = "done"
              /\ call'.result = "error"
              /\ call'.thrown = <<Last(call'.got)>>
              /\ call'.sent = call.sent
              /\ UNCHANGED trackerVars
              /\ UNCHANGED tasks
      ]_vars

C2_Witness ==
    /\ call.pc = "done" /\ call.op = "create"
    /\ call.got = <<Answer(307, 2, NoTask), Answer(307, 3, NoTask)>>
    /\ Len(call.sent) = 2
    /\ currentLeaderNode = 2
    /\ call.result = "error"

\* C3: a call whose single retry succeeded completes successfully towards its
\* caller, for create, update and delete alike, and the caller's cache update
\* has been performed.
C3_RetrySuccessCompletes ==
    (call.pc = "done" /\ Len(call.got) = 2 /\ call.got[2].status = 200)
        => /\ call.result = "ok"
           /\ call.thrown = <<>>
           /\ call.op = "delete" => call.id \notin CachedIds

\* C4: a first attempt that fails with anything but a redirect (no response, 4xx
\* other than 307, 5xx) is not retried, its error reaches the caller, and the
\* Leader Tracker is left as it is.
C4_NonRedirectFailurePropagates ==
    [][ (FirstAnswered /\ Last(call'.got).status \notin {200, 307})
           => /\ call'.pc = "done"
              /\ call'.result = "error"
              /\ call'.thrown = <<Last(call'.got)>>
              /\ call'.sent = call.sent
              /\ UNCHANGED trackerVars
              /\ UNCHANGED tasks
      ]_vars

C4_Witness ==
    /\ call.pc = "done" /\ call.op = "delete"
    /\ call.got = <<Answer(500, 1, NoTask)>>
    /\ call.thrown = <<Answer(500, 1, NoTask)>>
    /\ Len(call.sent) = 1
    /\ currentLeaderNode = 2

-----------------------------------------------------------------------------
(* Cluster View Aggregator: fetchAllNodeStatuses (hooks/useRaftStatus) *)

\* faulty variant: the loop steps over the node after the one just answered
AdvanceSkipsANode(i) ==
    IF cycles[i] + 1 < LastNode
      THEN [cycles EXCEPT ![i] = @ + 2]
      ELSE SubSeq(cycles, 1, i - 1) \o SubSeq(cycles, i + 1, Len(cycles))

\* cycles[i] = k: the i-th oldest running cycle awaits the answer of node k;
\* the requests to the nodes after k have not been issued yet
Advance(i) ==
    IF cycles[i] < LastNode
      THEN [cycles EXCEPT ![i] = @ + 1]
      ELSE SubSeq(cycles, 1, i - 1) \o SubSeq(cycles, i + 1, Len(cycles))

\* the effect's first call and every setInterval tick: the loop starts at node 1
pollStart ==
    /\ ticking
    /\ Len(cycles) < MaxCycles
    /\ cycles' = Append(cycles, 1)
    /\ missed' = [n \in Nodes |-> IF n \notin silent THEN 0
                                  ELSE IF missed[n] < 2 THEN missed[n] + 1 ELSE 2]
    /\ UNCHANGED <<trackerVars, viewVars, events, tasks, call, silent, evFetches, pushed, fetched,
                   observed, socketVars, replVars, ticking, refresh, wiped>>

\* raftApi.getNodeStatus(nodeId) resolved with status
pollAnswer(i, status) ==
    /\ i \in DOMAIN cycles
    /\ cycles[i] \notin silent
    /\ updateNodeStatus(cycles[i], status)
    /\ cycles' = Advance(i)
    /\ UNCHANGED <<events, tasks, call, silent, evFetches, pushed, fetched, missed,
                   observed, socketVars, replVars, ticking, refresh, wiped>>

\* raftApi.getNodeStatus(nodeId) rejected: the catch branch
pollFailure(i) ==
    /\ i \in DOMAIN cycles
    /\ cycles[i] \notin silent
    /\ updateNodeStatus(cycles[i], StoppedStatus(cycles[i]))
    /\ cycles' = Advance(i)
    /\ UNCHANGED <<events, tasks, call, silent, evFetches, pushed, fetched, missed,
                   observed, socketVars, replVars, ticking, refresh, wiped>>

ViewNext ==
    \/ pollStart
    \/ \E i \in DOMAIN cycles : \E s \in Statuses(cycles[i]) : pollAnswer(i, s)
    \/ \E i \in DOMAIN cycles : pollFailure(i)
    \/ \E n \in Nodes : \E s \in Statuses(n) : wsStatusMessage(s)

ViewSpec == Init /\ [][ViewNext]_vars

-----------------------------------------------------------------------------
(* Properties of the cluster view *)

\* this step called updateNodeStatus (every step of the aggregator and of the
\* push channel does, except the start of a cycle)
StatusApplied == Len(cycles') <= Len(cycles) /\ silent' = silent /\ call' = call

\* the step wrote the entry of node n and no other entry
WrittenNode(n) ==
    /\ n \in DOMAIN nodes'
    /\ \A m \in (DOMAIN nodes') \ {n} : m \in DOMAIN nodes /\ nodes'[m] = nodes[m]
    /\ DOMAIN nodes \subseteq DOMAIN nodes'

\* C5: over every sequence of updateNodeStatus calls (poll answers, synthesized
\* stopped statuses, push frames, in any interleaving) currentTerm never
\* decreases, and after each call it is the larger of its previous value and
\* the term of the status written.
C5_TermIsRunningMax ==
    [][ /\ currentTerm' >= currentTerm
        /\ StatusApplied
           => \E n \in Nodes :
                /\ WrittenNode(n)
                /\ currentTerm' = IF currentTerm >= nodes'[n].term
                                    THEN currentTerm ELSE nodes'[n].term
      ]_vars

\* the largest term seen is no longer stored anywhere: node 1 was overwritten
\* with the synthesized status, the others report term 1
C5_Witness ==
    /\ currentTerm = 2
    /\ DOMAIN nodes = Nodes
    /\ nodes[1] = StoppedStatus(1)
    /\ nodes[2].term = 1 /\ nodes[3].term = 1

ScenarioNodes ==
    (1 :> Reported(1, "follower", 1)) @@
    (2 :> Reported(2, "leader", 2)) @@
    (3 :> Reported(3, "follower", 1))

\* exactly one refresh cycle has run on the initial store, nothing else wrote
FirstCycleDone == applied = LastNode /\ cycles = <<>>

\* C6: last observed leader wins, without term comparison: a status with
\* is_leader for node n makes leaderId = n whatever its term and the previous
\* leaderId; a status without is_leader keeps leaderId. A first refresh cycle
\* with the answers (term 1, follower), (term 2, leader), (term 1, follower)
\* ends with leaderId = 2 and currentTerm = 2.
C6_LastObservedLeaderWins ==
    [][ /\ StatusApplied
           => \E n \in Nodes :
                /\ WrittenNode(n)
                /\ leaderId' = IF nodes'[n].is_leader THEN n ELSE leaderId
        /\ (FirstCycleDone' /\ nodes' = ScenarioNodes)
           => leaderId' = 2 /\ currentTerm' = 2
      ]_vars

C6_Witness ==
    /\ FirstCycleDone
    /\ nodes = ScenarioNodes
    /\ leaderId = 2 /\ currentTerm = 2 /\ currentLeaderNode = 2

-----------------------------------------------------------------------------
(* The aggregator in front of nodes that stop answering.  getNodeStatus sets *)
(* no timeout: a request that is never answered is awaited for good.         *)

\* node n stops answering status requests: they stay pending
nodeSilent(n) ==
    /\ n \notin silent
    /\ silent' = silent \cup {n}
    /\ UNCHANGED <<trackerVars, viewVars, events, tasks, call, cycles, evFetches,
                   pushed, fetched, missed, observed, socketVars, replVars,
                   ticking, refresh, wiped>>

\* node n answers (or refuses) again, the pending requests included
nodeAnswersAgain(n) ==
    /\ n \in silent
    /\ silent' = silent \ {n}
    /\ missed' = [missed EXCEPT ![n] = 0]
    /\ UNCHANGED <<trackerVars, viewVars, events, tasks, call, cycles, evFetches, pushed, fetched,
                   observed, socketVars, replVars, ticking, refresh, wiped>>

\* what an answering node reports during an outage of others
OutageStatuses(n) == {Reported(n, role, 1) : role \in {"leader", "follower"}}

OutageNext ==
    \/ pollStart
    \/ \E i \in DOMAIN cycles : \E s \in OutageStatuses(cycles[i]) : pollAnswer(i, s)
    \/ \E i \in DOMAIN cycles : pollFailure(i)
    \/ \E n \in Nodes : nodeSilent(n)
    \/ \E n \in Nodes : nodeAnswersAgain(n)

OutageSpec == Init /\ [][OutageNext]_vars

ShownStopped(n) == n \in DOMAIN nodes /\ nodes[n] = StoppedStatus(n)

\* C7: a node that stops responding to status polls is shown as stopped (term
\* 0, log_length 0, commit_index 0, not leader) by the end of the next refresh
\* cycle, whatever was stored for it: once a second cycle has started since
\* the node fell silent, its entry is the stopped status.
C7_StoppedWithinOneCycle ==
    \A n \in Nodes : (n \in silent /\ missed[n] >= 2) => ShownStopped(n)

\* C8: within a refresh cycle every node is queried independently: a cycle that
\* waits for a node that does not answer has no request to another node left
\* unissued.
C8_QueriesIndependent ==
    \A i \in DOMAIN cycles : cycles[i] \in silent => cycles[i] = LastNode

-----------------------------------------------------------------------------
(* Bounded Event History: addEvent / setEvents, fed by the push channel and  *)
(* by fetchEvents                                                            *)

\* seq.slice(-k)
SliceLast(seq, k) ==
    IF Len(seq) <= k THEN seq ELSE SubSeq(seq, Len(seq) - k + 1, Len(seq))

\* faulty variant: slice(-100)
addEventKeepsOneMore(evs, event) == Append(SliceLast(evs, HistoryKeep + 1), event)

\* [...state.events.slice(-99), event]
addEvent(evs, event) == Append(SliceLast(evs, HistoryKeep), event)

\* faulty variant: the fetched list is merged behind what the history holds
setEventsMerges(evs, newEvents) == evs \o newEvents

\* set({ events })
setEvents(evs, newEvents) == newEvents

\* the k-th event pushed since the last replacement is the number k; the
\* j-th event of a fetched list is the number -j
PushedEvent(k) == k
FetchedEvents(m) == [j \in 1..m |-> 0 - j]
FetchLens == {0, 1, HistoryKeep + 1, HistoryKeep + 2}

\* ws.onmessage with an event frame
wsEventMessage ==
    /\ pushed < MaxAppends
    /\ events' = addEvent(events, PushedEvent(pushed + 1))
    /\ pushed' = pushed + 1
    /\ UNCHANGED <<trackerVars, viewVars, tasks, call, cycles, silent, evFetches,
                   fetched, missed, observed, socketVars, replVars, ticking, refresh, wiped>>

\* fetchEvents: const activeNode = leaderId || 1, request sent
fetchEventsStart ==
    /\ ticking
    /\ Len(evFetches) < MaxInflight
    /\ evFetches' = Append(evFetches, IF leaderId # NoLeader THEN leaderId ELSE 1)
    /\ UNCHANGED <<trackerVars, viewVars, events, tasks, call, cycles, silent,
                   pushed, fetched, missed, observed, socketVars, replVars,
                   ticking, refresh, wiped>>

\* raftApi.getEvents resolved with a list of m events: setEvents(events)
fetchEventsAnswer(i, m) ==
    /\ i \in DOMAIN evFetches
    /\ events' = setEvents(events, FetchedEvents(m))
    /\ evFetches' = SubSeq(evFetches, 1, i - 1) \o SubSeq(evFetches, i + 1, Len(evFetches))
    /\ pushed' = 0
    /\ fetched' = m
    /\ wiped' = pushed
    /\ UNCHANGED <<trackerVars, viewVars, tasks, call, cycles, silent, missed,
                   observed, socketVars, replVars, ticking, refresh>>

\* raftApi.getEvents rejected: console.error only
fetchEventsFailure(i) ==
    /\ i \in DOMAIN evFetches
    /\ evFetches' = SubSeq(evFetches, 1, i - 1) \o SubSeq(evFetches, i + 1, Len(evFetches))
    /\ UNCHANGED <<trackerVars, viewVars, events, tasks, call, cycles, silent,
                   pushed, fetched, missed, observed, socketVars, replVars,
                   ticking, refresh, wiped>>

HistoryNext ==
    \/ wsEventMessage
    \/ fetchEventsStart
    \/ \E i \in DOMAIN evFetches : \E m \in FetchLens : fetchEventsAnswer(i, m)
    \/ \E i \in DOMAIN evFetches : fetchEventsFailure(i)

HistorySpec == Init /\ [][HistoryNext]_vars

\* C9: the event history never holds more than 100 events, over any sequence
\* and interleaving of addEvent and setEvents.
C9_HistoryAtMost100 == Len(events) <= HistoryKeep + 1

\* C10: starting from an empty history, after k successive addEvent calls the
\* history is exactly the last min(k, 100) appended events in arrival order
\* (after 150 appends: events 51..150).
C10_LastHundredInOrder ==
    fetched = 0 =>
        LET kept == IF pushed <= HistoryKeep + 1 THEN pushed ELSE HistoryKeep + 1 IN
        events = [i \in 1..kept |-> PushedEvent(pushed - kept + i)]

C10_Witness ==
    /\ fetched = 0 /\ pushed = 150
    /\ Len(events) = 100
    /\ events[1] = PushedEvent(51) /\ events[100] = PushedEvent(150)

-----------------------------------------------------------------------------
(* The same observation applied again: updateNodeStatus called by
   ws.onmessage or by fetchAllNodeStatuses, the statuses remembered *)

\* the run of identical statuses that ends with status
RunWith(status) ==
    IF observed # <<>> /\ observed[1] = status
      THEN IF Len(observed) < MaxRepeats THEN Append(observed, status) ELSE observed
      ELSE <<status>>

statusObserved(status) ==
    /\ updateNodeStatus(status.node_id, status)
    /\ observed' = RunWith(status)
    /\ UNCHANGED <<events, tasks, call, cycles, silent, evFetches, pushed, fetched, missed,
                   socketVars, replVars, ticking, refresh, wiped>>

RepeatNext ==
    \E n \in Nodes : \E s \in Statuses(n) \cup {StoppedStatus(n)} : statusObserved(s)

RepeatSpec == Init /\ [][RepeatNext]_vars

\* C11: applying the same NodeStatus for the same node id twice in a row leaves
\* the nodes map, leaderId, currentTerm and the Leader Tracker exactly as they
\* were after the first application.
C11_ReapplyChangesNothing ==
    [][ Len(observed') >= 2
          => /\ nodes' = nodes
             /\ leaderId' = leaderId
             /\ currentTerm' = currentTerm
             /\ currentLeaderNode' = currentLeaderNode
             /\ baseURL' = baseURL
      ]_vars

\* node 2 has reported twice in a row that it leads in term 1, after node 3
\* had been seen with term 2
C11_Witness ==
    /\ Len(observed) = 2
    /\ observed[2] = Reported(2, "leader", 1)
    /\ nodes[2] = Reported(2, "leader", 1)
    /\ 3 \in DOMAIN nodes /\ nodes[3].term = 2
    /\ leaderId = 2 /\ currentLeaderNode = 2 /\ currentTerm = 2

-----------------------------------------------------------------------------
(* Event Stream Subscriber: hooks/useWebSocket *)

SocketStates == {"CONNECTING", "OPEN", "CLOSING"}

otherThanSocket ==
    <<trackerVars, viewVars, events, tasks, call, cycles, silent, evFetches, pushed,
      fetched, missed, observed, replVars, ticking, refresh, wiped>>

\* the slot a new chain of sockets takes
FreeSlot == CHOOSE c \in Slots : chan[c] = Free /\ \A d \in 1..(c - 1) : chan[d] # Free

\* connect(): const ws = new WebSocket(...); wsRef.current = ws
connect(c) ==
    /\ chan' = [chan EXCEPT ![c] = [state |-> "CONNECTING", delay |-> 0]]
    /\ wsRef' = c

\* the effect runs (mount, or re-run after its cleanup; the refs are kept)
effectRun ==
    /\ ~mounted
    /\ \E c \in Slots : chan[c] = Free
    /\ mounted' = TRUE
    /\ connect(FreeSlot)
    /\ reconnects' = 0
    /\ UNCHANGED <<reconnectTimeoutRef, wsConnected, sends>>
    /\ UNCHANGED otherThanSocket

\* ws.onopen
onopen(c) ==
    /\ chan[c].state = "CONNECTING"
    /\ chan' = [chan EXCEPT ![c].state = "OPEN"]
    /\ wsConnected' = TRUE
    /\ UNCHANGED <<mounted, wsRef, reconnectTimeoutRef, sends, reconnects>>
    /\ UNCHANGED otherThanSocket

\* faulty variant: no reconnect after an attempt that never opened
AfterCloseOnlyIfOpened(readyState) ==
    IF readyState = "CONNECTING" THEN Free
    ELSE [state |-> "timer", delay |-> ReconnectDelay]

\* what onclose leaves behind: window.setTimeout(() => connect(), 2000)
AfterClose(readyState) == [state |-> "timer", delay |-> ReconnectDelay]

\* ws.onclose: the server closed, the attempt failed, or close() has completed
onclose(c) ==
    /\ chan[c].state \in SocketStates
    /\ wsConnected' = FALSE
    /\ chan' = [chan EXCEPT ![c] = AfterClose(chan[c].state)]
    /\ reconnectTimeoutRef' = c
    /\ UNCHANGED <<mounted, wsRef, sends, reconnects>>
    /\ UNCHANGED otherThanSocket

\* the reconnect timer of slot c fires: connect()
timerExpires(c) ==
    /\ chan[c].state = "timer"
    /\ connect(c)
    /\ reconnects' = IF reconnects < MaxReconnects THEN reconnects + 1 ELSE reconnects
    /\ UNCHANGED <<mounted, reconnectTimeoutRef, wsConnected, sends>>
    /\ UNCHANGED otherThanSocket

\* clearTimeout(reconnectTimeoutRef.current)
ClearTimeout(ch, ref) ==
    IF ref # 0 /\ ch[ref].state = "timer" THEN [ch EXCEPT ![ref] = Free] ELSE ch

\* wsRef.current.close()
Close(ch, ref) ==
    IF ref # 0 /\ ch[ref].state \in {"CONNECTING", "OPEN"}
      THEN [ch EXCEPT ![ref].state = "CLOSING"] ELSE ch

\* the cleanup of the effect (unmount, or before the effect runs again)
effectCleanup ==
    /\ mounted
    /\ mounted' = FALSE
    /\ chan' = Close(ClearTimeout(chan, reconnectTimeoutRef), wsRef)
    /\ UNCHANGED <<wsRef, reconnectTimeoutRef, wsConnected, sends, reconnects>>
    /\ UNCHANGED otherThanSocket

\* faulty variant: a socket that is still connecting is written to as well
CanSendUnlessClosing(ref) == ref # 0 /\ chan[ref].state \in {"CONNECTING", "OPEN"}

\* wsRef.current?.readyState === WebSocket.OPEN
CanSend(ref) == ref # 0 /\ chan[ref].state = "OPEN"

sendMessage ==
    /\ sends.calls < MaxSends
    /\ sends' = [calls |-> sends.calls + 1,
                 wire  |-> IF CanSend(wsRef) THEN sends.wire + 1 ELSE sends.wire]
    /\ UNCHANGED <<mounted, chan, wsRef, reconnectTimeoutRef, wsConnected, reconnects>>
    /\ UNCHANGED otherThanSocket

ReconnectNext ==
    \/ effectRun
    \/ \E c \in Slots : onopen(c)
    \/ \E c \in Slots : onclose(c)
    \/ \E c \in Slots : timerExpires(c)
    \/ effectCleanup

SocketNext ==
    \/ ReconnectNext
    \/ sendMessage

SocketSpec == Init /\ [][SocketNext]_vars

\* a timer set with window.setTimeout fires unless it is cleared
ReconnectSpec ==
    Init /\ [][ReconnectNext]_vars /\ \A c \in Slots : WF_vars(timerExpires(c))

-----------------------------------------------------------------------------
(* Properties of the subscriber *)

Attempting == {c \in Slots : chan[c].state \in {"CONNECTING", "OPEN"}}
TimerPending == {c \in Slots : chan[c].state = "timer"}

\* C12: once the effect has been cleaned up (and has not run again) there is
\* no pending reconnect timer and no open or connecting channel, so no
\* connection attempt is made after teardown.
C12_NothingAliveAfterTeardown ==
    ~mounted => Attempting = {} /\ TimerPending = {}

\* C13: at every moment at most one push channel is open or connecting and at
\* most one reconnect timer is pending, whatever the sequence of connect,
\* open, close, timer expiry, teardown and re-mount.
C13_OneChannelOneTimer ==
    Cardinality(Attempting) <= 1 /\ Cardinality(TimerPending) <= 1

\* the socket of slot c has closed in this step
Closed(c) == chan[c].state \in SocketStates /\ chan'[c].state \notin SocketStates

\* C14: while the subscriber is mounted, every close of the push channel
\* (closed by the server or a failed attempt) sets a reconnect timer of the
\* fixed 2000 ms, whatever the number of earlier attempts, and every such
\* timer is followed by a new connection attempt (unless the subscriber is
\* torn down first).
C14_CloseLeadsToReconnect ==
    /\ [][ \A c \in Slots :
             (mounted /\ Closed(c))
               => chan'[c] = [state |-> "timer", delay |-> 2000]
         ]_vars
    /\ \A c \in Slots :
         (mounted /\ chan[c].state = "timer")
           ~> (chan[c].state = "CONNECTING" \/ ~mounted)

\* the only chain of sockets since the effect ran has reconnected
\* MaxReconnects times and is connecting again
C14_Witness ==
    /\ mounted
    /\ reconnects = MaxReconnects
    /\ chan[1].state = "CONNECTING"
    /\ \A c \in Slots \ {1} : chan[c] = Free

\* C15: sendMessage puts a command onto the wire only if the current channel
\* is OPEN at the moment of the call; otherwise the call changes nothing (no
\* error, no queue), and nothing is transmitted outside a call.
C15_SendOnlyWhenOpen ==
    [][ sends' # sends
          => /\ sends'.calls = sends.calls + 1
             /\ sends'.wire = IF wsRef # 0 /\ chan[wsRef].state = "OPEN"
                                THEN sends.wire + 1 ELSE sends.wire
             /\ UNCHANGED <<mounted, chan, wsRef, reconnectTimeoutRef, wsConnected>>
      ]_vars

\* two calls: one found the channel OPEN and was transmitted, the other found
\* it not OPEN and was dropped; the channel is being closed by the cleanup
C15_Witness ==
    /\ sends.calls = 2 /\ sends.wire = 1
    /\ wsRef # 0 /\ chan[wsRef].state = "CLOSING"
    /\ reconnectTimeoutRef = 0

-----------------------------------------------------------------------------
(* Replication composer: LogReplication (components/LeaderTimeline) *)

LogEntry(i) == [index |-> i, term |-> 1]

\* a log that holds the entries 1..len
PrefixLog(len) == [i \in 1..len |-> LogEntry(i)]

\* a log that holds only the last len entries of the full log
TailLog(len) == [i \in 1..len |-> LogEntry(MaxLogLen - len + i)]

\* the values of memory_log a node answers with
LogLens == {0, MaxLogLen - 2, MaxLogLen}
Logs    == {PrefixLog(len) : len \in LogLens} \cup {TailLog(MaxLogLen - 2)}

\* a status that carries commit_index ci
LogStatus(n, ci) ==
    [Reported(n, "follower", 0) EXCEPT !.commit_index = ci, !.log_length = ci]

LogStatuses(n) == {LogStatus(n, ci) : ci \in {MaxLogLen - 2, MaxLogLen}}

\* nodeLogs.forEach up to node k, in the order the keys were set (1, 2, 3):
\* if (logs.length > maxLogs.length) maxLogs = logs
RECURSIVE MaxLogsUpTo(_, _)
MaxLogsUpTo(nl, k) ==
    IF k = 0 THEN <<>>
    ELSE LET maxLogs == MaxLogsUpTo(nl, k - 1)
         IN  IF k \in DOMAIN nl /\ Len(nl[k]) > Len(maxLogs) THEN nl[k] ELSE maxLogs

leaderLogs == MaxLogsUpTo(nodeLogs, LastNode)

\* the node whose log maxLogs ends up pointing to (0: the initial [])
RECURSIVE RefNodeUpTo(_, _)
RefNodeUpTo(nl, k) ==
    IF k = 0 THEN 0
    ELSE IF k \in DOMAIN nl /\ Len(nl[k]) > Len(MaxLogsUpTo(nl, k - 1))
           THEN k ELSE RefNodeUpTo(nl, k - 1)

ReferenceNode == RefNodeUpTo(nodeLogs, LastNode)

\* nodeLogs.get(nodeId) || []
NodeLogOf(nodeId) == IF nodeId \in DOMAIN nodeLogs THEN nodeLogs[nodeId] ELSE <<>>

\* nodeLog.some(e => e.index === entry.index)
hasEntry(nodeId, entry) ==
    \E j \in DOMAIN NodeLogOf(nodeId) : NodeLogOf(nodeId)[j].index = entry.index

\* faulty variant: the entry at the commit index itself counts as pending
isCommittedStrict(nodeId, entry) ==
    nodeId \in DOMAIN nodes /\ nodes[nodeId].commit_index > entry.index

\* nodeCommitIndices[nodeId] >= entry.index (undefined for a node not in the store)
isCommitted(nodeId, entry) ==
    nodeId \in DOMAIN nodes /\ nodes[nodeId].commit_index >= entry.index

\* the cell of the combined view
Cell(nodeId, entry) ==
    IF hasEntry(nodeId, entry)
      THEN IF isCommitted(nodeId, entry) THEN "present-committed" ELSE "present-uncommitted"
      ELSE "absent"

\* leaderLogs.slice(-10): the rows of the combined view
Rows == SliceLast(leaderLogs, ShownRows)

\* what one request of fetchAllLogs ends with: a body, or an error or timeout
LogResults ==
    {[ok |-> TRUE, memory_log |-> log] : log \in Logs} \cup
    {[ok |-> FALSE, memory_log |-> <<>>]}

\* faulty variant: a node whose fetch failed is shown with the reference log
RecordedFallsBackToReference(result) ==
    IF result.ok THEN result.memory_log ELSE leaderLogs

\* try: newLogs.set(nodeId, resp.data.memory_log || []); catch: newLogs.set(nodeId, [])
Recorded(result) == IF result.ok THEN result.memory_log ELSE <<>>

\* newLogs after the loop has passed node k
RECURSIVE NewLogsUpTo(_, _)
NewLogsUpTo(results, k) ==
    IF k = 0 THEN <<>>
    ELSE MapSet(NewLogsUpTo(results, k - 1), k, Recorded(results[k]))

\* one invocation of fetchAllLogs, from new Map() to setNodeLogs(newLogs); the
\* awaits in between touch only the local newLogs, and the 1 s timeouts keep an
\* invocation shorter than the 5 s interval
fetchAllLogs(results) ==
    /\ nodeLogs' = NewLogsUpTo(results, LastNode)
    /\ prevRef' = ReferenceNode
    /\ logFailed' = {n \in Nodes : ~results[n].ok}
    /\ UNCHANGED <<trackerVars, viewVars, events, tasks, call, cycles, silent, evFetches,
                   pushed, fetched, missed, observed, socketVars, ticking, refresh, wiped>>

ReplNext ==
    \/ \E results \in [Nodes -> LogResults] : fetchAllLogs(results)
    \/ \E n \in Nodes : \E s \in LogStatuses(n) : wsStatusMessage(s)

ReplSpec == Init /\ [][ReplNext]_vars

-----------------------------------------------------------------------------
(* Properties of the replication view *)

C17_ReferenceIsKept ==
    (/\ leaderLogs # <<>>
     /\ prevRef \in DOMAIN nodeLogs
     /\ Len(nodeLogs[prevRef]) = Len(leaderLogs))
      => ReferenceNode = prevRef

-----------------------------------------------------------------------------
(* The task cache and the answers of the server *)

\* C18: the task cache changes through addTask, updateTask or removeTask only
\* in the step in which the create, update or delete call returns with a 2xx
\* answer of the server, and by that operation's entry only; a call that ends
\* in an error leaves the cache as it was.
C18_CacheFollowsConfirmedAnswers ==
    [][ /\ tasks' # tasks
           => /\ call.pc \in {"first", "retry"} /\ call'.pc = "done"
              /\ call'.result = "ok"
              /\ Last(call'.got).status = 200
              /\ tasks' = IF call.op = "create" THEN addTask(tasks, Last(call'.got).data)
                          ELSE IF call.op = "update"
                                 THEN updateTask(tasks, Last(call'.got).data)
                                 ELSE removeTask(tasks, call.id)
        /\ (call'.result = "error" /\ call.pc # "done") => tasks' = tasks
      ]_vars

\* the task that a confirmed create put into the cache is still there after a
\* delete that the server answered with 500
C18_Witness ==
    /\ call.pc = "done" /\ call.op = "delete" /\ call.result = "error"
    /\ call.got = <<Answer(500, NoLeader, NoTask)>>
    /\ call.id \in CachedIds

-----------------------------------------------------------------------------
(* Node ids outside the configured membership *)

\* C19: resolving the address of a node id outside {1, 2, 3} fails instead of
\* yielding an address: a redirect that names such a node as leader does not
\* move the Leader Tracker to it, no request is sent for it, and the call ends
\* with an error.
C19_UnknownNodeFails ==
    /\ currentLeaderNode \in DOMAIN NODE_URLS
    /\ (/\ call.got # <<>>
        /\ call.got[1].status = 307
        /\ call.got[1].leader_id \notin DOMAIN NODE_URLS \cup {NoLeader})
          => /\ call.pc = "done" /\ call.result = "error"
             /\ Len(call.sent) = 1

-----------------------------------------------------------------------------
(* A failed status poll *)

\* C20: a failed status poll of node n changes only the store entry of n: the
\* entries of the other nodes, leaderId and currentTerm stay as they are.
C20_FailedPollTouchesOneEntry ==
    [][ \A i \in DOMAIN cycles :
          LET n == cycles[i] IN
          (/\ cycles' = Advance(i)
           /\ n \in DOMAIN nodes' /\ nodes'[n].state = "stopped")
            => /\ DOMAIN nodes' = DOMAIN nodes \cup {n}
               /\ \A m \in DOMAIN nodes \ {n} : nodes'[m] = nodes[m]
               /\ leaderId' = leaderId
               /\ currentTerm' = currentTerm
      ]_vars

\* node 2 was seen leading in term 2 and its poll has failed since: its entry
\* is the stopped status, node 1's entry, leaderId and currentTerm are as before
C20_Witness ==
    /\ DOMAIN nodes = {1, 2}
    /\ nodes[1] = Reported(1, "follower", 1)
    /\ nodes[2].state = "stopped" /\ nodes[2].term = 0
    /\ leaderId = 2
    /\ currentTerm = 2

-----------------------------------------------------------------------------
(* The set of known nodes *)

\* C21: a node id that is in the nodes map stays in it: no poll answer, failed
\* poll or push frame removes an entry.
C21_KnownNodesOnlyGrow ==
    [][DOMAIN nodes \subseteq DOMAIN nodes']_vars

\* updateNodeStatus has run twice, both times for node 1, the second time
\* with the status of a failed poll: the entry is still there
C21_Witness ==
    /\ applied = 2
    /\ DOMAIN nodes = {1}
    /\ nodes[1] = StoppedStatus(1)

-----------------------------------------------------------------------------
(* Statuses as the nodes report them, consistent or not *)

\* node n says it leads and names l as the leader in the same status
Unreconciled(n, l) == [Reported(n, "leader", 1) EXCEPT !.leader_id = l]

ReportedStatuses(n) ==
    Statuses(n) \cup {Unreconciled(n, l) : l \in ({NoLeader} \cup Nodes) \ {n}}

ReportNext ==
    \E n \in Nodes : \E s \in ReportedStatuses(n) : wsStatusMessage(s)

ReportSpec == Init /\ [][ReportNext]_vars

\* C22: every NodeStatus held in the store satisfies is_leader => leader_id =
\* node_id, whatever the nodes have reported.
C22_StoredLeaderNamesItself ==
    \A n \in DOMAIN nodes : nodes[n].is_leader => nodes[n].leader_id = nodes[n].node_id

-----------------------------------------------------------------------------
(* Teardown of the aggregator: the cleanups of the effects of useRaftStatus *)

\* return () => clearInterval(interval), for both effects
effectsCleanup ==
    /\ ticking
    /\ ticking' = FALSE
    /\ UNCHANGED <<trackerVars, viewVars, events, tasks, call, cycles, silent, evFetches,
                   pushed, fetched, missed, observed, socketVars, replVars, refresh, wiped>>

TeardownNext ==
    \/ pollStart
    \/ \E i \in DOMAIN cycles : \E s \in OutageStatuses(cycles[i]) : pollAnswer(i, s)
    \/ \E i \in DOMAIN cycles : pollFailure(i)
    \/ fetchEventsStart
    \/ \E i \in DOMAIN evFetches : \E m \in {0, 1} : fetchEventsAnswer(i, m)
    \/ \E i \in DOMAIN evFetches : fetchEventsFailure(i)
    \/ effectsCleanup

TeardownSpec == Init /\ [][TeardownNext]_vars

\* C23: once the aggregator is torn down, the result of a fetch that was still
\* in flight is not written into the store: nodes, leaderId, currentTerm and
\* the event history no longer change.
C23_NoWriteAfterTeardown ==
    [][ ~ticking => UNCHANGED <<nodes, leaderId, currentTerm, events>> ]_vars

-----------------------------------------------------------------------------
(* What a task mutation leaves alone *)

\* C24: a task mutation, whether it succeeds directly, succeeds after a
\* redirect or fails, leaves nodes, leaderId and currentTerm unchanged; the
\* Leader Tracker changes only when a redirect is followed, the task cache
\* only when the call returns successfully.
C24_MutationLeavesViewAlone ==
    [][ call' # call
          => /\ nodes' = nodes /\ leaderId' = leaderId /\ currentTerm' = currentTerm
             /\ trackerVars' # trackerVars
                  => Last(call'.got).status = 307 /\ call'.pc = "retry"
             /\ tasks' # tasks => call'.result = "ok"
      ]_vars

\* node 2 is the leader in the view; an update was redirected to node 3 and
\* succeeded there: the tracker and the cache have moved, the view has not
C24_Witness ==
    /\ call.pc = "done" /\ call.op = "update" /\ call.result = "ok"
    /\ call.got[1] = Answer(307, 3, NoTask)
    /\ currentLeaderNode = 3
    /\ leaderId = 2 /\ DOMAIN nodes = {2} /\ currentTerm = 1
    /\ Len(tasks) = 1 /\ tasks[1].status = "completed"

-----------------------------------------------------------------------------
(* The events fetch next to redirected writes *)

RouteNext ==
    \/ taskApiCall("create", 0)
    \/ \E r \in RedirectAnswers : taskApiFirstAnswer(r)
    \/ taskApiRetryAnswer(Answer(0, NoLeader, NoTask))
    \/ \E n \in Nodes : \E s \in LeaderClaims(n) : statusObserved(s)
    \/ fetchEventsStart
    \/ \E i \in DOMAIN evFetches : fetchEventsFailure(i)

RouteSpec == Init /\ [][RouteNext]_vars

\* C25: the node a periodic events fetch is sent to is the Leader Tracker's
\* current leader at the time the request is issued.
C25_FetchGoesToTrackedLeader ==
    [][ Len(evFetches') > Len(evFetches) => Last(evFetches') = currentLeaderNode ]_vars

-----------------------------------------------------------------------------
(* A failed log fetch *)

\* C26: a node whose log fetch failed in a refresh is recorded with an empty
\* log, so every row of the view is "absent" for it, whatever its last known
\* commit_index; the logs of the other nodes of the same refresh are recorded.
C26_FailedFetchShowsAbsent ==
    /\ \A n \in logFailed :
         /\ n \in DOMAIN nodeLogs /\ nodeLogs[n] = <<>>
         /\ \A i \in DOMAIN Rows : Cell(n, Rows[i]) = "absent"
    /\ nodeLogs # <<>> => DOMAIN nodeLogs = Nodes

\* the fetch from node 2 failed while node 2's commit_index is known to be 5;
\* nodes 1 and 3 are recorded with five and three entries
C26_Witness ==
    /\ logFailed = {2}
    /\ 2 \in DOMAIN nodes /\ nodes[2].commit_index = 5
    /\ nodeLogs[1] = PrefixLog(5) /\ nodeLogs[3] = PrefixLog(3)
    /\ Len(Rows) = 5
    /\ \A i \in DOMAIN Rows : Cell(2, Rows[i]) = "absent"

-----------------------------------------------------------------------------
(* The history replaced by a fetched list *)

\* C27: setEvents(E) replaces the history wholesale: until the next push the
\* history equals E exactly, so the events pushed before the replacement are
\* gone, whether they arrived before or after the fetch was issued.
C27_ReplacedWholesale == pushed = 0 => events = FetchedEvents(fetched)

\* two events were pushed, then a fetched list of one event replaced them
C27_Witness ==
    /\ wiped = 2 /\ pushed = 0 /\ fetched = 1
    /\ events = <<0 - 1>>

-----------------------------------------------------------------------------
(* A leader observed again after a redirect *)

\* C28: whenever updateNodeStatus applies a status with is_leader = true for
\* node n, the Leader Tracker's current leader is n immediately afterwards,
\* also when a redirect has moved the tracker away from the store's leaderId.
C28_LeaderStatusSetsTracker ==
    [][ (applied' # applied /\ observed' # <<>> /\ Last(observed').is_leader)
          => currentLeaderNode' = Last(observed').node_id ]_vars

-----------------------------------------------------------------------------
(* The base address and the tracked leader *)

\* C29: in every reachable state the base address of task requests is the
\* registered address of the node id getLeaderNode() returns.
C29_BaseURLOfTrackedLeader ==
    /\ currentLeaderNode \in DOMAIN NODE_URLS
    /\ baseURL = NODE_URLS[currentLeaderNode]

-----------------------------------------------------------------------------
(* TaskManager: the periodic task refresh next to a create *)

otherThanRefresh ==
    <<trackerVars, viewVars, events, call, cycles, silent, evFetches, pushed, fetched,
      missed, observed, socketVars, replVars, ticking, wiped>>

\* handleSubmit without editingTask: taskApi.create(formData) is sent
handleSubmit ==
    /\ refresh.create = "idle"
    /\ Len(refresh.server) < MaxServerTasks
    /\ refresh' = [refresh EXCEPT !.create = "sent"]
    /\ UNCHANGED <<tasks, otherThanRefresh>>

\* the cluster stores the new task under the next id and answers with it
createServed ==
    /\ refresh.create = "sent"
    /\ LET task == ServerTask(Len(refresh.server) + 1, "pending") IN
         refresh' = [refresh EXCEPT !.create = "answered", !.created = task,
                                    !.server = Append(@, task)]
    /\ UNCHANGED <<tasks, otherThanRefresh>>

\* const created = await taskApi.create(formData); addTask(created)
createReturns ==
    /\ refresh.create = "answered"
    /\ tasks' = addTask(tasks, refresh.created)
    /\ refresh' = [refresh EXCEPT !.create = "idle", !.created = NoTask]
    /\ UNCHANGED otherThanRefresh

\* catch (error): console.error('Failed to save task:', error); the request or
\* its answer was lost
createFails ==
    /\ refresh.create \in {"sent", "answered"}
    /\ refresh' = [refresh EXCEPT !.create = "idle", !.created = NoTask]
    /\ UNCHANGED <<tasks, otherThanRefresh>>

\* fetchTasks on mount or on the 5 s interval: taskApi.getAll() is sent
fetchTasks ==
    /\ refresh.getAll = "idle"
    /\ refresh' = [refresh EXCEPT !.getAll = "sent"]
    /\ UNCHANGED <<tasks, otherThanRefresh>>

\* the cluster answers GET /api/tasks with the tasks it holds at that moment
getAllServed ==
    /\ refresh.getAll = "sent"
    /\ refresh' = [refresh EXCEPT !.getAll = "answered", !.list = refresh.server]
    /\ UNCHANGED <<tasks, otherThanRefresh>>

\* const tasks = await taskApi.getAll(); setTasks(tasks)
fetchTasksReturns ==
    /\ refresh.getAll = "answered"
    /\ tasks' = setTasks(tasks, refresh.list)
    /\ refresh' = [refresh EXCEPT !.getAll = "idle", !.list = <<>>]
    /\ UNCHANGED otherThanRefresh

\* catch (error): console.error('Failed to fetch tasks:', error)
fetchTasksFails ==
    /\ refresh.getAll \in {"sent", "answered"}
    /\ refresh' = [refresh EXCEPT !.getAll = "idle", !.list = <<>>]
    /\ UNCHANGED <<tasks, otherThanRefresh>>

RefreshNext ==
    \/ handleSubmit
    \/ createServed
    \/ createReturns
    \/ createFails
    \/ fetchTasks
    \/ getAllServed
    \/ fetchTasksReturns
    \/ fetchTasksFails

RefreshSpec == Init /\ [][RefreshNext]_vars

\* C30: the task cache never contains two entries with the same task id, under
\* any interleaving of the periodic task refresh (getAll, then setTasks) with
\* a create call followed by addTask.
C30_NoTaskTwice ==
    \A i, j \in DOMAIN tasks : tasks[i].id = tasks[j].id => i = j

-----------------------------------------------------------------------------
(* Overlapping refresh cycles *)

\* the refresh cycles alone: the interval fires while earlier cycles still wait
OverlapNext ==
    \/ pollStart
    \/ \E i \in DOMAIN cycles : \E s \in Statuses(cycles[i]) : pollAnswer(i, s)
    \/ \E i \in DOMAIN cycles : pollFailure(i)

OverlapSpec == Init /\ [][OverlapNext]_vars

\* C31 as stated: for each node, status responses are applied in the order
\* their requests were issued: the response of an earlier refresh cycle is
\* never applied after the response of a later cycle for the same node. (A
\* later cycle that awaits a node after n has applied its response for n.)
C31_NoStaleOverwrite ==
    [][ \A i \in DOMAIN cycles :
          (cycles' = Advance(i) /\ cycles' # cycles)
            => \A j \in DOMAIN cycles : j > i => cycles[j] <= cycles[i]
      ]_vars

\* the step is one of the i-th oldest cycle: it moved on or ended, the other
\* cycles are where they were
CycleMoved(i) ==
    \/ /\ Len(cycles') = Len(cycles)
       /\ cycles'[i] # cycles[i]
       /\ \A j \in DOMAIN cycles \ {i} : cycles'[j] = cycles[j]
    \/ /\ Len(cycles') = Len(cycles) - 1
       /\ cycles' = [j \in 1..(Len(cycles) - 1) |->
                       IF j < i THEN cycles[j] ELSE cycles[j + 1]]

\* C31, amended: within one refresh cycle the responses are applied in the
\* order the requests were issued, node 1, 2, 3, each before the next request
\* is issued, and a response is written to the entry of its own node only.
\* Between overlapping cycles the responses for a node are applied in the
\* order they arrive.
C31_InIssueOrderWithinACycle ==
    [][ cycles' # cycles =>
          \/ cycles' = Append(cycles, 1)
          \/ \E i \in DOMAIN cycles :
                LET n == cycles[i] IN
                /\ CycleMoved(i)
                /\ IF Len(cycles') = Len(cycles)
                     THEN cycles'[i] = n + 1
                     ELSE n = LastNode
                /\ n \in DOMAIN nodes'
                /\ \A m \in DOMAIN nodes \ {n} : nodes'[m] = nodes[m]
      ]_vars

\* two cycles overlap, the later one ahead of the earlier one: both have
\* applied a response of node 1; a status of term 2 has been applied (kept in
\* currentTerm) and overwritten, the store shows term 1 for both nodes
C31_Witness ==
    /\ cycles = <<2, 3>>
    /\ applied = 3
    /\ DOMAIN nodes = {1, 2}
    /\ nodes[1].term = 1 /\ nodes[2].term = 1
    /\ currentTerm = 2

-----------------------------------------------------------------------------
(* The leader of the view and its stored status *)

\* C32 as stated: whenever the store's leaderId is a node id n, the status
\* stored for n has is_leader = true; the view never names as leader a node
\* whose stored state is stopped.
C32_LeaderIsStoredAsLeader ==
    leaderId # NoLeader
      => leaderId \in DOMAIN nodes /\ nodes[leaderId].is_leader

\* C32, amended: whenever leaderId is a node id n, a status is stored for n,
\* and when leaderId became n the status stored for n had is_leader = true. A
\* later status of n without is_leader, the synthesized stopped status
\* included, overwrites the entry and leaves leaderId at n.
C32_LeaderWasStoredAsLeader ==
    [][ /\ leaderId' # NoLeader => leaderId' \in DOMAIN nodes'
        /\ leaderId' # leaderId
             => leaderId' \in DOMAIN nodes' /\ nodes'[leaderId'].is_leader
        /\ (/\ leaderId \in DOMAIN nodes
            /\ nodes'[leaderId] # nodes[leaderId]
            /\ ~nodes'[leaderId].is_leader)
             => leaderId' = leaderId
      ]_vars

\* node 2 was seen leading, then its poll failed: leaderId is still 2 and the
\* entry of node 2 is the stopped status
C32_Witness ==
    /\ leaderId = 2
    /\ 2 \in DOMAIN nodes /\ nodes[2] = StoppedStatus(2)

-----------------------------------------------------------------------------
(* Stored terms and currentTerm *)

\* C33: in every state reached through updateNodeStatus alone, each status
\* stored in the nodes map has a term not above currentTerm.
C33_StoredTermsBelowCurrent ==
    \A n \in DOMAIN nodes : nodes[n].term <= currentTerm

\* all three nodes are stored, with the terms 0 (stopped), 2 and 1
C33_Witness ==
    /\ DOMAIN nodes = Nodes
    /\ nodes[1] = StoppedStatus(1)
    /\ nodes[2].term = 2 /\ nodes[3].term = 1
    /\ currentTerm = 2

-----------------------------------------------------------------------------
(* A redirect that names no leader *)

\* C34: a 307 response whose body carries no usable leader_id (absent, null
\* or 0) is handled like a failure that is no redirect: no retry is sent, the
\* Leader Tracker is unchanged and the original error reaches the caller, for
\* create, update and delete.
C34_RedirectWithoutLeaderIsAFailure ==
    [][ (/\ call.pc = "first" /\ call'.got # call.got
         /\ Last(call'.got).status = 307
         /\ Last(call'.got).leader_id = NoLeader)
          => /\ call'.pc = "done" /\ call'.result = "error"
             /\ call'.thrown = <<Last(call'.got)>>
             /\ call'.sent = call.sent
             /\ trackerVars' = trackerVars
             /\ tasks' = tasks
      ]_vars

\* a delete sent to node 2, the tracked leader, was answered 307 without a
\* leader: one request, the 307 thrown, the tracker still on node 2, the task
\* still cached
C34_Witness ==
    /\ call.pc = "done" /\ call.op = "delete" /\ call.result = "error"
    /\ call.sent = <<NODE_URLS[2]>>
    /\ call.got = <<Answer(307, NoLeader, NoTask)>>
    /\ call.thrown = <<Answer(307, NoLeader, NoTask)>>
    /\ currentLeaderNode = 2 /\ baseURL = NODE_URLS[2]
    /\ Len(tasks) = 1

====
